---- MODULE Spec2Model ----
(***************************************************************************)
(* Model of logseq-md-export.py: the conversion of one Logseq page (a      *)
(* sequence of tab-indented outline lines) into flat Markdown.             *)
(*                                                                         *)
(* Text is modelled by TLA+ strings, character for character.  One         *)
(* character cannot be written in a TLA+ string literal: the grave accent  *)
(* of a code fence.  BQ stands for it everywhere.  A raw line is held      *)
(* without its terminating newline, which neither "." nor "$" of the       *)
(* line-splitting pattern consumes.                                        *)
(***************************************************************************)
EXTENDS Integers, Sequences, FiniteSets, TLC

\* The grave accent (the fence character).
BQ == "@"
FENCE == BQ \o BQ \o BQ

----------------------------------------------------------------------------
\* Python string primitives

Min(a, b) == IF a < b THEN a ELSE b
Max(a, b) == IF a > b THEN a ELSE b

\* s[a:b] with 0 <= a, 0 <= b (clamped to the string as Python does).
Slice(s, a, b) ==
    IF a >= Min(b, Len(s)) THEN "" ELSE SubSeq(s, a + 1, Min(b, Len(s)))

\* s[a:]
SliceFrom(s, a) == Slice(s, a, Len(s))

\* s[n] for 0 <= n < len(s)
CharAt(s, n) == SubSeq(s, n + 1, n + 1)

\* pat occurs in s at 0-based offset k
OccursAt(s, pat, k) ==
    /\ k >= 0
    /\ k + Len(pat) <= Len(s)
    /\ SubSeq(s, k + 1, k + Len(pat)) = pat

\* s.find(pat): lowest offset of pat in s, or -1
Find(s, pat) ==
    IF \E k \in 0..Len(s) : OccursAt(s, pat, k)
    THEN CHOOSE k \in 0..Len(s) :
            /\ OccursAt(s, pat, k)
            /\ \A j \in 0..(k - 1) : ~OccursAt(s, pat, j)
    ELSE -1

\* s.find(pat) >= 0
Contains(s, pat) == \E k \in 0..(Len(s) - Len(pat)) : OccursAt(s, pat, k)

StartsWith(s, pat) == OccursAt(s, pat, 0)

\* "".join(["\t" for _ in range(n)])
RECURSIVE Tabs(_)
Tabs(n) == IF n <= 0 THEN "" ELSE "\t" \o Tabs(n - 1)

----------------------------------------------------------------------------
\* Splitting a raw line into leading tabs and content (the pattern of
\* the first loop: leading tabs, then the rest of the line)

\* len(groups()[0]): the number of leading tab characters
RECURSIVE LeadingTabs(_)
LeadingTabs(line) ==
    IF Len(line) > 0 /\ CharAt(line, 0) = "\t"
    THEN 1 + LeadingTabs(SliceFrom(line, 1))
    ELSE 0

\* groups()[1]: the rest of the line after the leading tabs
ContentRaw(line) == SliceFrom(line, LeadingTabs(line))

----------------------------------------------------------------------------
\* LineType, LineHierarchy and get_line_type

TITLE == "TITLE"
LIST == "LIST"
QUOTE == "QUOTE"
CODE_BLOCK_MARKER == "CODE_BLOCK_MARKER"
CODE == "CODE"
EMPTY == "EMPTY"
TEXT == "TEXT"
LineType == {TITLE, LIST, QUOTE, CODE_BLOCK_MARKER, CODE, EMPTY, TEXT}

PARENT == "PARENT"
CHILD == "CHILD"
LineHierarchy == {PARENT, CHILD}

Classified(t, h) == [type |-> t, hierarchy |-> h]

\* logger.error(...); exit(1)
PARSING_ERROR == [type |-> "PARSING_ERROR", hierarchy |-> "NONE"]
\* line_content_raw[0] on an empty string raises IndexError, which nothing
\* catches
INDEX_ERROR == [type |-> "INDEX_ERROR", hierarchy |-> "NONE"]

IsFailure(r) == r \in {PARSING_ERROR, INDEX_ERROR}

\* The block "if L2_tag is None": a content of one or two characters.
\* Variant that takes every such line for an empty one.
ClassifyShort_lenient(L1_tag) ==
    IF L1_tag = "-" THEN Classified(EMPTY, PARENT)
    ELSE Classified(EMPTY, CHILD)

ClassifyShort(L1_tag) ==
    IF L1_tag = "-" THEN Classified(EMPTY, PARENT)
    ELSE IF L1_tag = " " THEN Classified(EMPTY, CHILD)
    ELSE PARSING_ERROR

\* Variant of ClassifyPlain that takes a line without a bullet for code.
ClassifyPlain_code(L1_tag) ==
    IF L1_tag = "-" THEN Classified(LIST, PARENT)
    ELSE Classified(CODE, CHILD)

\* Lines 92-98: no secondary tag is recognized.
ClassifyPlain(L1_tag) ==
    IF L1_tag = "-" THEN Classified(LIST, PARENT)
    ELSE Classified(TEXT, CHILD)

get_line_type(line, line_content_raw) ==
    IF Len(line_content_raw) = 0 THEN INDEX_ERROR
    ELSE
    LET L1_tag == CharAt(line_content_raw, 0)
        HasL2 == Len(line_content_raw) > 2
        L2_tag == IF HasL2 THEN CharAt(line_content_raw, 2) ELSE "None"
        \* the two fence patterns: leading tabs, then a bullet or two spaces,
        \* then the fence
        parent_code_block == StartsWith(ContentRaw(line), "- " \o FENCE)
        child_code_block == StartsWith(ContentRaw(line), "  " \o FENCE)
    IN  IF L1_tag = "#" THEN Classified(TITLE, PARENT)
        ELSE IF ~HasL2 THEN ClassifyShort(L1_tag)
        ELSE IF L2_tag = " " THEN Classified(TEXT, CHILD)
        ELSE IF L2_tag = ">" THEN
            IF L1_tag = "-" THEN Classified(QUOTE, PARENT)
            ELSE Classified(QUOTE, CHILD)
        ELSE IF L2_tag = "#" THEN
            IF L1_tag = "-" THEN Classified(TITLE, PARENT)
            ELSE IF L1_tag = " " THEN Classified(TEXT, CHILD)
            ELSE PARSING_ERROR
        ELSE IF L2_tag = BQ THEN
            IF parent_code_block THEN Classified(CODE_BLOCK_MARKER, PARENT)
            ELSE IF child_code_block THEN Classified(CODE_BLOCK_MARKER, CHILD)
            ELSE IF L1_tag = "-" THEN Classified(LIST, PARENT)
            ELSE IF L1_tag = " " THEN Classified(TEXT, CHILD)
            ELSE PARSING_ERROR
        ELSE ClassifyPlain(L1_tag)

----------------------------------------------------------------------------
\* The directive stage of the second loop (asset links, drawio references,
\* task markers): an if/elif chain, so at most one rule applies to a line.

\* The asset pattern: from the start of the content, anything up to a "[",
\* anything up to "](", any two characters and "/", "assets/", anything, ")".
\* p2 is the offset of the "]" of "](".
AssetMatchAt(c, p2) ==
    /\ OccursAt(c, "](", p2)
    /\ p2 + 4 <= Len(c)
    /\ OccursAt(c, "/assets/", p2 + 4)
    /\ \E p1 \in 0..(p2 - 1) : CharAt(c, p1) = "["
    /\ \E p3 \in (p2 + 12)..(Len(c) - 1) : CharAt(c, p3) = ")"

AssetMatches(c) == \E p2 \in 0..Len(c) : AssetMatchAt(c, p2)

\* Every ".*" is greedy: the match keeps the last "](" that works and the
\* last ")" of the content.
AssetP2(c) ==
    CHOOSE p2 \in 0..Len(c) :
        /\ AssetMatchAt(c, p2)
        /\ \A q \in (p2 + 1)..Len(c) : ~AssetMatchAt(c, q)

AssetP3(c) ==
    CHOOSE p3 \in 0..(Len(c) - 1) :
        /\ CharAt(c, p3) = ")"
        /\ \A q \in (p3 + 1)..(Len(c) - 1) : CharAt(c, q) # ")"

\* asset_re.groups()[0] and asset_re.groups()[2]
AssetPrefix(c) == Slice(c, 0, AssetP2(c) + 2)

\* Variant of AssetFilename that takes the name from the "assets/" on.
AssetFilename_withDir(c) == Slice(c, AssetP2(c) + 5, AssetP3(c))

AssetFilename(c) == Slice(c, AssetP2(c) + 12, AssetP3(c))

\* The drawio pattern: anything, "{{renderer :drawio, ", anything, any one
\* character, "svg", "}}".  q is the offset of the "{{", e of the "svg}}".
DRAWIO == "{{renderer :drawio, "

\* Variant of DrawioEndAt that takes any extension of three characters.
DrawioEndAt_anyExt(c, q, e) ==
    /\ e >= q + Len(DRAWIO) + 1
    /\ OccursAt(c, "}}", e + 3)

DrawioEndAt(c, q, e) ==
    /\ e >= q + Len(DRAWIO) + 1
    /\ OccursAt(c, "svg}}", e)

DrawioMatchAt(c, q) ==
    /\ OccursAt(c, DRAWIO, q)
    /\ \E e \in 0..Len(c) : DrawioEndAt(c, q, e)

DrawioMatches(c) == \E q \in 0..Len(c) : DrawioMatchAt(c, q)

DrawioQ(c) ==
    CHOOSE q \in 0..Len(c) :
        /\ DrawioMatchAt(c, q)
        /\ \A r \in (q + 1)..Len(c) : ~DrawioMatchAt(c, r)

DrawioE(c) ==
    CHOOSE e \in 0..Len(c) :
        /\ DrawioEndAt(c, DrawioQ(c), e)
        /\ \A r \in (e + 1)..Len(c) : ~DrawioEndAt(c, DrawioQ(c), r)

\* asset_re.groups()[0] and asset_re.groups()[1]
DrawioPrefix(c) == Slice(c, 0, DrawioQ(c))
DrawioFilename(c) == Slice(c, DrawioQ(c) + Len(DRAWIO), DrawioE(c) + 3)

DRAWIO_SUBDIR == "storages/logseq-drawio-plugin"

\* The task patterns: leading tabs, the marker, the rest of the content.
\* Variant of TaskMatches that is not anchored at the start of the content.
TaskMatches_anywhere(c, marker) == Contains(c, marker)

TaskMatches(c, marker) == OccursAt(c, marker, LeadingTabs(c))
TaskTabs(c) == Slice(c, 0, LeadingTabs(c))
\* Variant of TaskRest that keeps the blank that ends the marker.
TaskRest_keepBlank(c, marker) ==
    SliceFrom(c, LeadingTabs(c) + Len(marker) - 1)

TaskRest(c, marker) == SliceFrom(c, LeadingTabs(c) + Len(marker))

Request(filename, subdir) == [filename |-> filename, subdir |-> subdir]

Directive(c, toggle, requests) ==
    [content |-> c, toggle |-> toggle, requests |-> requests]

\* Result of the chain for a line of the given type and content: the content
\* it leaves in line_info, whether the code-block flag flips, and the calls
\* of import_asset it makes.
RewriteDirectives(type, c) ==
    IF type = CODE_BLOCK_MARKER THEN Directive(c, TRUE, << >>)
    ELSE IF Contains(c, "../assets") THEN
        IF AssetMatches(c)
        THEN Directive(AssetPrefix(c) \o "assets/" \o AssetFilename(c) \o ")",
                       FALSE, << Request(AssetFilename(c), "") >>)
        ELSE Directive(c, FALSE, << >>)
    ELSE IF Contains(c, "{{renderer :drawio,") THEN
        IF DrawioMatches(c)
        THEN Directive(DrawioPrefix(c) \o "![" \o DrawioFilename(c) \o "]"
                           \o "(assets/" \o DrawioFilename(c) \o ")",
                       FALSE,
                       << Request(DrawioFilename(c), DRAWIO_SUBDIR) >>)
        ELSE Directive(c, FALSE, << >>)
    ELSE IF Contains(c, "- TODO ") THEN
        IF TaskMatches(c, "- TODO ")
        THEN Directive(TaskTabs(c) \o "- **&#x2610;" \o " TODO** "
                           \o TaskRest(c, "- TODO "), FALSE, << >>)
        ELSE Directive(c, FALSE, << >>)
    ELSE IF Contains(c, "- DOING ") THEN
        IF TaskMatches(c, "- DOING ")
        THEN Directive(TaskTabs(c) \o "- **&#x231B;" \o " DOING** "
                           \o TaskRest(c, "- DOING "), FALSE, << >>)
        ELSE Directive(c, FALSE, << >>)
    ELSE IF Contains(c, "- DONE ") THEN
        IF TaskMatches(c, "- DONE ")
        THEN Directive(TaskTabs(c) \o "- **&#x2611;** ~~"
                           \o TaskRest(c, "- DONE ") \o "~~", FALSE, << >>)
        ELSE Directive(c, FALSE, << >>)
    ELSE IF Contains(c, "- LATER ") THEN
        IF TaskMatches(c, "- LATER ")
        THEN Directive(TaskTabs(c) \o "- **&#x23F2;" \o " LATER** "
                           \o TaskRest(c, "- LATER "), FALSE, << >>)
        ELSE Directive(c, FALSE, << >>)
    ELSE IF Contains(c, "- NOW ") THEN
        IF TaskMatches(c, "- NOW ")
        THEN Directive(TaskTabs(c) \o "- **&#x23F0;" \o " NOW** "
                           \o TaskRest(c, "- NOW "), FALSE, << >>)
        ELSE Directive(c, FALSE, << >>)
    ELSE Directive(c, FALSE, << >>)

----------------------------------------------------------------------------
\* The second loop of export_file_to_folder, stage by stage.  i is the loop
\* index (0-based, as in the code); ls is the list "lines".

\* ls[j] with Python's indexing: a negative index counts from the end, so
\* lines[i - 1] is the last line of the page when i = 0.
At(ls, j) == ls[IF j < 0 THEN Len(ls) + j + 1 ELSE j + 1]

HasNext(ls, i) == i < Len(ls) - 1

Indent(target, depth) == [target |-> target, depth |-> depth]

\* Variant of CalcIndent without the max(0, ...) of the dedent branch.
CalcIndent_unclamped(i, ls, target, depth, last) ==
    LET cur == At(ls, i)
        prev == At(ls, i - 1)
        reset == IF i = 0 THEN 0
                 ELSE IF cur.type = TITLE \/ prev.type = TITLE THEN 0
                 ELSE target
    IN  IF cur.type # TITLE /\ prev.type # TITLE
        THEN IF cur.indent > prev.indent
             THEN Indent(IF depth + 1 > 1 THEN last + 1 ELSE last, depth + 1)
             ELSE IF cur.indent < prev.indent
             THEN Indent(last - (prev.indent - cur.indent), depth - 1)
             ELSE Indent(last, depth)
        ELSE Indent(reset, depth)

\* CALCULATE TARGET INDENTATION: the new target_line_indent and
\* cur_list_depth.
CalcIndent(i, ls, target, depth, last) ==
    LET cur == At(ls, i)
        prev == At(ls, i - 1)
        reset == IF i = 0 THEN 0
                 ELSE IF cur.type = TITLE \/ prev.type = TITLE THEN 0
                 ELSE target
    IN  IF cur.type # TITLE /\ prev.type # TITLE
        THEN IF cur.indent > prev.indent
             THEN Indent(IF depth + 1 > 1 THEN last + 1 ELSE last, depth + 1)
             ELSE IF cur.indent < prev.indent
             THEN Indent(Max(0, last - (prev.indent - cur.indent)), depth - 1)
             ELSE Indent(last, depth)
        ELSE Indent(reset, depth)

\* Variant of LogbookSkip that counts the ":END:" line as well.
RECURSIVE LogbookSkip_inclusive(_, _)
LogbookSkip_inclusive(ls, l) ==
    IF l >= Len(ls) THEN 0
    ELSE IF Contains(At(ls, l).content, ":END:") THEN 1
    ELSE 1 + LogbookSkip_inclusive(ls, l + 1)

\* The number of lines the :LOGBOOK: branch adds to lines_to_skip: the lines
\* from i up to, not including, the first one containing ":END:".
RECURSIVE LogbookSkip(_, _)
LogbookSkip(ls, l) ==
    IF l >= Len(ls) THEN 0
    ELSE IF Contains(At(ls, l).content, ":END:") THEN 0
    ELSE 1 + LogbookSkip(ls, l + 1)

\* content[content.find("#"):]
FromHash(c) ==
    IF Find(c, "#") >= 0 THEN SliceFrom(c, Find(c, "#"))
    ELSE SliceFrom(c, Len(c) - 1)

\* Variant of EmptyContent with the sense of no_br inverted.
EmptyContent_inverted(nobr) == IF nobr THEN "<br>\n" ELSE "\n"

\* content = "<br>\n" if not no_br else "\n"
EmptyContent(nobr) == IF ~nobr THEN "<br>\n" ELSE "\n"

Rendered(outcome, c, depth, skip) ==
    [outcome |-> outcome, content |-> c, depth |-> depth, skip |-> skip]

\* Variant of Continuation that exempts text instead of titles.
Continuation_notText(i, ls, c) ==
    IF HasNext(ls, i) /\ At(ls, i + 1).type = TEXT /\ At(ls, i).type # TEXT
    THEN c \o "\\"
    ELSE c

\* The backslash appended to every kind but the fence marker and the title
\* when the next line is TEXT.
Continuation(i, ls, c) ==
    IF HasNext(ls, i) /\ At(ls, i + 1).type = TEXT /\ At(ls, i).type # TITLE
    THEN c \o "\\"
    ELSE c

\* Variant of TitleDepth that leaves the depth as it is.
TitleDepth_kept(depth) == depth

\* Line 298: cur_list_depth after a Title rendered outside a code block.
TitleDepth(depth) == 0

\* "Represent each line depending on its type": the content of line i
\* before the final newline and the tabs, or the reason it is dropped.
\* ls already holds the content the directive stage left in line i.
RenderLine(i, ls, in_code, depth, nobr) ==
    LET cur == At(ls, i)
        c == cur.content
    IN  IF in_code THEN Rendered("emit", SliceFrom(c, 2), depth, 0)
        ELSE IF cur.type = TITLE
        THEN Rendered("emit", FromHash(c), TitleDepth(depth), 0)
        ELSE IF cur.type = LIST
        THEN IF depth > 0
             THEN Rendered("emit",
                    Continuation(i, ls,
                      IF HasNext(ls, i) /\ At(ls, i + 1).indent < cur.indent
                      THEN c \o "\n" ELSE c),
                    depth, 0)
             ELSE Rendered("emit",
                    Continuation(i, ls,
                      IF /\ HasNext(ls, i)
                         /\ At(ls, i + 1).type = LIST
                         /\ At(ls, i + 1).indent = cur.indent
                      THEN SliceFrom(c, 2) \o "\\" ELSE SliceFrom(c, 2)),
                    depth, 0)
        ELSE IF cur.type = TEXT
        THEN IF Contains(c, "collapsed:: true")
             THEN Rendered("collapsed", "", depth, 0)
             ELSE IF Contains(c, ":LOGBOOK:")
             THEN Rendered("logbook", "", depth, LogbookSkip(ls, i))
             ELSE Rendered("emit",
                    Continuation(i, ls,
                      IF HasNext(ls, i) /\ At(ls, i + 1).type # cur.type
                      THEN SliceFrom(c, 2) \o "\n" ELSE SliceFrom(c, 2)),
                    depth, 0)
        ELSE IF cur.type = CODE
        THEN Rendered("emit", Continuation(i, ls, SliceFrom(c, 2)), depth, 0)
        ELSE IF cur.type = EMPTY
        THEN Rendered("emit",
               Continuation(i, ls, EmptyContent(nobr)),
               depth, 0)
        ELSE IF cur.type = CODE_BLOCK_MARKER
        THEN Rendered("emit", SliceFrom(c, 2), depth, 0)
        ELSE \* QUOTE
             Rendered("emit", Continuation(i, ls, SliceFrom(c, 2)), depth, 0)

----------------------------------------------------------------------------
\* State of one call of export_file_to_folder

VARIABLES
    lines_raw,                \* file.readlines(), newlines dropped
    no_br,                    \* the no_br argument
    pc,                       \* "classify": first loop, "rewrite": second
                              \* loop, "done": file written, "aborted":
                              \* exit(1) or an uncaught exception
    lines,                    \* the parsed line dicts
    i,                        \* index of the second loop
    target_line_indent,
    cur_list_depth,
    last_target_line_indent,
    traversing_code_block,
    lines_to_skip,
    output_content,
    asset_requests,           \* the calls of import_asset made so far
    out_file,                 \* << >>, or << text written to the output >>
    trace                     \* history: one record per iteration of the
                              \* second loop

vars == << lines_raw, no_br, pc, lines, i, target_line_indent, cur_list_depth,
           last_target_line_indent, traversing_code_block, lines_to_skip,
           output_content, asset_requests, out_file, trace >>

\* The state after lines 113-129, for a page of Docs and a no_br of Flags.
InitWith(Docs, Flags) ==
    /\ lines_raw \in Docs
    /\ no_br \in Flags
    /\ pc = IF lines_raw = << >> THEN "rewrite" ELSE "classify"
    /\ lines = << >>
    /\ i = 0
    /\ target_line_indent = 0
    /\ cur_list_depth = 0
    /\ last_target_line_indent = 0
    /\ traversing_code_block = FALSE
    /\ lines_to_skip = 0
    /\ output_content = ""
    /\ asset_requests = << >>
    /\ out_file = << >>
    /\ trace = << >>

\* Variant of AfterClassify that goes on after a failed classification.
AfterClassify_continue(r, last) ==
    IF last THEN "rewrite" ELSE "classify"

\* Where the run stands after get_line_type returned r for a line: exit(1)
\* and the IndexError end it, the last line ends the first loop.
AfterClassify(r, last) ==
    IF IsFailure(r) THEN "aborted"
    ELSE IF last THEN "rewrite"
    ELSE "classify"

\* One iteration of the first loop: split the next raw line, classify it and
\* append it to lines; a line that cannot be classified ends the run.
ClassifyLine ==
    /\ pc = "classify"
    /\ Len(lines) < Len(lines_raw)
    /\ LET line == lines_raw[Len(lines) + 1]
           line_content_raw == ContentRaw(line)
           line_indent == LeadingTabs(line)
           r == get_line_type(line, line_content_raw)
       IN  /\ pc' = AfterClassify(r, Len(lines) + 1 = Len(lines_raw))
           /\ lines' = IF IsFailure(r) THEN lines
                       ELSE Append(lines,
                               [content |-> line_content_raw,
                                indent |-> line_indent,
                                type |-> r.type,
                                hierarchy |-> r.hierarchy])
    /\ UNCHANGED << lines_raw, no_br, i, target_line_indent, cur_list_depth,
                    last_target_line_indent, traversing_code_block,
                    lines_to_skip, output_content, asset_requests, out_file,
                    trace >>

\* Variant of Toggle that sets the flag on every fence marker.
Toggle_set(flag, toggle) == IF toggle THEN TRUE ELSE flag

\* traversing_code_block = not traversing_code_block, on a fence marker
Toggle(flag, toggle) == IF toggle THEN ~flag ELSE flag

\* A history record: the line index, what became of the line ("emit",
\* "collapsed", "logbook", "skipped", "failed"), the values of
\* target_line_indent, cur_list_depth and traversing_code_block it left, the
\* text added to output_content and the import_asset calls it made.
Step(outcome, target, depth, code, text, requests) ==
    [i |-> i, outcome |-> outcome, target |-> target, depth |-> depth,
     code |-> code, text |-> text, requests |-> requests]

\* Variant of BaseIndent that lets every emitted line set the baseline.
BaseIndent_always(hierarchy, target, last) == target

\* Lines 362-363: last_target_line_indent after an emitted line.
BaseIndent(hierarchy, target, last) ==
    IF hierarchy = PARENT THEN target ELSE last

\* Variant of OutputLine without the tabs of line 357.
OutputLine_flush(target, c) == c \o "\n"

\* Lines 355-360: the newline is appended to the content, the target indent
\* is put in front of it, and the result goes to output_content.
OutputLine(target, c) == Tabs(target) \o c \o "\n"

\* One iteration of the second loop, lines 155-363.
ProcessLine ==
    /\ pc = "rewrite"
    /\ i < Len(lines)
    /\ IF lines_to_skip > 0
       THEN /\ lines_to_skip' = lines_to_skip - 1
            /\ i' = i + 1
            /\ trace' = Append(trace,
                   Step("skipped", target_line_indent, cur_list_depth,
                        traversing_code_block, "", << >>))
            /\ UNCHANGED << pc, lines, target_line_indent, cur_list_depth,
                            last_target_line_indent, traversing_code_block,
                            output_content, asset_requests >>
       ELSE
       LET line_info == At(lines, i)
           d == RewriteDirectives(line_info.type, line_info.content)
           ls == [lines EXCEPT ![i + 1].content = d.content]
           code == Toggle(traversing_code_block, d.toggle)
           ind == CalcIndent(i, ls, target_line_indent, cur_list_depth,
                             last_target_line_indent)
           r == RenderLine(i, ls, code, ind.depth, no_br)
           content == OutputLine(ind.target, r.content)
       IN  \E copy_ok \in (IF d.requests = << >> THEN {TRUE} ELSE BOOLEAN) :
           IF ~copy_ok
           THEN \* shutil.copy raises: the asset is missing
                /\ pc' = "aborted"
                /\ asset_requests' = asset_requests \o d.requests
                /\ trace' = Append(trace,
                       Step("failed", target_line_indent, cur_list_depth,
                            traversing_code_block, "", d.requests))
                /\ UNCHANGED << lines, i, target_line_indent, cur_list_depth,
                                last_target_line_indent,
                                traversing_code_block, lines_to_skip,
                                output_content >>
           ELSE /\ asset_requests' = asset_requests \o d.requests
                /\ lines' = ls
                /\ traversing_code_block' = code
                /\ target_line_indent' = ind.target
                /\ cur_list_depth' = r.depth
                /\ i' = i + 1
                /\ pc' = pc
                /\ IF r.outcome = "emit"
                   THEN /\ output_content' = output_content \o content
                        /\ last_target_line_indent' =
                               BaseIndent(line_info.hierarchy, ind.target,
                                          last_target_line_indent)
                        /\ lines_to_skip' = lines_to_skip
                        /\ trace' = Append(trace,
                               Step("emit", ind.target, r.depth, code,
                                    content, d.requests))
                   ELSE /\ lines_to_skip' = lines_to_skip + r.skip
                        /\ trace' = Append(trace,
                               Step(r.outcome, ind.target, r.depth, code, "",
                                    d.requests))
                        /\ UNCHANGED << output_content,
                                        last_target_line_indent >>
    /\ UNCHANGED << lines_raw, no_br, out_file >>

\* Lines 368-379: the output file is written once the loop has ended.
WriteOutput ==
    /\ pc = "rewrite"
    /\ i = Len(lines)
    /\ out_file' = << output_content >>
    /\ pc' = "done"
    /\ UNCHANGED << lines_raw, no_br, lines, i, target_line_indent,
                    cur_list_depth, last_target_line_indent,
                    traversing_code_block, lines_to_skip, output_content,
                    asset_requests, trace >>

Next == ClassifyLine \/ ProcessLine \/ WriteOutput

----------------------------------------------------------------------------
\* Pages: every sequence of at most maxLen raw lines, each a content of the
\* given set behind 0..maxIndent tabs.

RawLines(contents, maxIndent) ==
    { Tabs(t) \o c : t \in 0..maxIndent, c \in contents }

Pages(contents, maxIndent, maxLen) ==
    UNION { [1..n -> RawLines(contents, maxIndent)] : n \in 1..maxLen }

----------------------------------------------------------------------------
\* Bounds and specifications

MaxLen == 3         \* lines of a page
MaxIndent == 2      \* leading tabs of a line, where nesting is the subject
MaxShortLen == 2    \* lines of a page, where the text of a line is the
                    \* subject
MaxTabs == 1        \* leading tabs of a line, on those pages
MaxBlockLen == 4    \* lines of a page, where a block spans several lines

\* Outline pages: list nodes, headings, continuation text.
IndentContents == {"- A", "# T", "  t"}
Init == InitWith(Pages(IndentContents, MaxIndent, MaxLen), {FALSE})
Spec == Init /\ [][Next]_vars

\* Pages of plain list nodes.
NestedContents == {"- A", "- B", "- C"}
InitNested == InitWith(Pages(NestedContents, MaxIndent, MaxLen), {FALSE})
SpecNested == InitNested /\ [][Next]_vars

\* Pages with fences and a metadata block.
FenceContents == {"- " \o FENCE, "  " \o FENCE, "  :LOGBOOK:", "  :END:",
                  "- A"}
InitFence == InitWith(Pages(FenceContents, 0, MaxBlockLen), {FALSE})
SpecFence == InitFence /\ [][Next]_vars

\* Pages with lines the classifier rejects, next to lines that would
\* produce output and an asset request.
ClassifyContents == {"a", "ab", "abc", "a #", "a " \o BQ, "", "- A",
                     "- [x](../assets/a)"}
InitClassify == InitWith(Pages(ClassifyContents, 0, MaxLen), {FALSE})
SpecClassify == InitClassify /\ [][Next]_vars

----------------------------------------------------------------------------
\* Vocabulary of the properties

\* The classification of raw line k (1-based) of the page.
RawType(k) == get_line_type(lines_raw[k], ContentRaw(lines_raw[k]))

\* The history records of the lines the second loop really worked on.
Processed == { k \in 1..Len(trace) :
                 trace[k].outcome \in {"emit", "collapsed", "logbook"} }

\* The second loop has run over the whole page.
LoopEnded == pc \in {"rewrite", "done"} /\ i = Len(lines_raw)

\* Nothing of the second half of the run has happened.
NothingProduced ==
    /\ i = 0
    /\ trace = << >>
    /\ output_content = ""
    /\ asset_requests = << >>
    /\ out_file = << >>

----------------------------------------------------------------------------
\* C1: converting the page "- A", TAB "- B", TAB TAB "- C" gives the three
\* lines the target indents 0, 0, 1.
C1_NestedListIndents ==
    (lines_raw = << "- A", "\t- B", "\t\t- C" >> /\ pc = "done")
        => << trace[1].target, trace[2].target, trace[3].target >>
               = << 0, 0, 1 >>

\* C2: target_line_indent and last_target_line_indent are never negative,
\* and every processed line that is a Title, or whose preceding input line
\* is a Title, gets target indent 0 whatever the raw indents are.
C2_IndentNonNegativeTitleReset ==
    /\ target_line_indent >= 0
    /\ last_target_line_indent >= 0
    /\ \A k \in Processed :
          /\ trace[k].target >= 0
          /\ (RawType(k).type = TITLE \/ (k > 1 /\ RawType(k - 1).type = TITLE))
                => trace[k].target = 0

\* A line right after a Title, with more leading tabs than the Title, has
\* just been processed.
C2_Witness ==
    \E k \in Processed :
        /\ k = Len(trace)
        /\ k > 1
        /\ RawType(k - 1).type = TITLE
        /\ RawType(k).type # TITLE
        /\ LeadingTabs(lines_raw[k]) > LeadingTabs(lines_raw[k - 1])
        /\ trace[k].target = 0

\* The fence markers of the page, and those the second loop did not skip.
Markers == { k \in 1..Len(lines_raw) : RawType(k).type = CODE_BLOCK_MARKER }
MarkersSeen == Markers \cap Processed

\* C3: if the page has an even number of CodeBlockMarker lines, the
\* code-block flag is false once the last line has been processed.
C3_EvenFencesEndOutside ==
    (LoopEnded /\ Cardinality(Markers) % 2 = 0) => ~traversing_code_block

\* C3 amended: counting only the fence markers that are not skipped as part
\* of a :LOGBOOK: block.
C3_EvenSeenFencesEndOutside ==
    (LoopEnded /\ Cardinality(MarkersSeen) % 2 = 0) => ~traversing_code_block

\* A page with two fences, both seen, and a skipped line has been processed
\* to its end.
C3_Witness ==
    /\ LoopEnded
    /\ Cardinality(MarkersSeen) = 2
    /\ \E k \in 1..Len(lines_raw) : trace[k].outcome = "skipped"

\* First and third character of a content, "" when absent.
L1(c) == IF Len(c) > 0 THEN CharAt(c, 0) ELSE ""
L2(c) == IF Len(c) > 2 THEN CharAt(c, 2) ELSE ""

\* Line k starts with none of "#", "-", " " and its third character is none
\* of the secondary tags.
NoTagLine(k) ==
    LET c == ContentRaw(lines_raw[k])
    IN  /\ L1(c) \notin {"", "#", "-", " "}
        /\ L2(c) \notin {" ", ">", "#", BQ}

\* The same, and the line has no third character at all.
ShortNoTagLine(k) ==
    NoTagLine(k) /\ Len(ContentRaw(lines_raw[k])) <= 2

\* The run stopped in the first loop, or is still in it, before line k is
\* in "lines".
StopsAt(k) ==
    /\ pc \in {"classify", "aborted"}
    /\ Len(lines) < k
    /\ NothingProduced

\* C4: a page with a line that starts with none of "#", "-", " " and whose
\* third character is no secondary tag is unclassifiable: the run aborts in
\* classification and produces no output.
C4_NoTagLineAborts ==
    \A k \in 1..Len(lines_raw) : NoTagLine(k) => StopsAt(k)

\* C4 amended: such a line is unclassifiable when it has no third character.
C4_ShortNoTagLineAborts ==
    \A k \in 1..Len(lines_raw) : ShortNoTagLine(k) => StopsAt(k)

\* The run was ended by a line without a third character, after lines that
\* were classified.
C4_Witness ==
    /\ pc = "aborted"
    /\ Len(lines) >= 1
    /\ ShortNoTagLine(Len(lines) + 1)
    /\ RawType(Len(lines) + 1) = PARSING_ERROR

\* C5: if any line of the page fails classification the run ends before
\* any line is rewritten, any asset is requested or the file is written;
\* and every line is classified before the first rewrite step.
C5_AllOrNothing ==
    /\ (\E k \in 1..Len(lines_raw) : IsFailure(RawType(k)))
          => (pc \in {"classify", "aborted"} /\ NothingProduced)
    /\ (pc \notin {"classify", "aborted"}) => Len(lines) = Len(lines_raw)

\* The run was ended by its last line, after a line with an asset link was
\* classified.
C5_Witness ==
    /\ pc = "aborted"
    /\ Len(lines) = Len(lines_raw) - 1
    /\ \E k \in 1..Len(lines) : Contains(lines[k].content, "../assets")
    /\ NothingProduced

----------------------------------------------------------------------------
\* Pages with task lines, alone, nested, inside a fence or a metadata
\* block, and with a rest that holds the trigger of an earlier rule.
TaskContents == {"- TODO buy milk", "- DONE call mom", "- TODO ",
                 "- DONE - TODO x", "- TODO see ../assets", "- " \o FENCE,
                 "  :LOGBOOK:", "- A"}
InitTask == InitWith(Pages(TaskContents, MaxTabs, MaxShortLen), {FALSE})
SpecTask == InitTask /\ [][Next]_vars

\* Raw line k is "- TODO R" resp. "- DONE R" behind its tabs.
IsTodo(k) == StartsWith(ContentRaw(lines_raw[k]), "- TODO ")
IsDone(k) == StartsWith(ContentRaw(lines_raw[k]), "- DONE ")
RestOf(k) == SliceFrom(ContentRaw(lines_raw[k]), 7)

TodoText(k) == "- **&#x2610; TODO** " \o RestOf(k)
DoneText(k) == "- **&#x2611;** ~~" \o RestOf(k) \o "~~"

\* C6: for every rest R and every number of leading tabs the line
\* "- TODO R" is rewritten in the output to "- **&#x2610; TODO** R" and
\* "- DONE R" to "- **&#x2611;** ~~R~~", behind the line's leading tabs.
C6_TaskLineOutput ==
    \A k \in 1..Len(trace) :
        trace[k].outcome = "emit" =>
            LET tabs == Tabs(LeadingTabs(lines_raw[k]))
            IN  /\ IsTodo(k) => StartsWith(trace[k].text, tabs \o TodoText(k))
                /\ IsDone(k) => StartsWith(trace[k].text, tabs \o DoneText(k))

\* The rest of line k holds no trigger of a rule that comes earlier in the
\* chain than the rule of its own marker.
PlainTodo(k) ==
    /\ IsTodo(k)
    /\ ~Contains(RestOf(k), "../assets")
    /\ ~Contains(RestOf(k), "{{renderer :drawio,")

PlainDone(k) ==
    /\ IsDone(k)
    /\ ~Contains(RestOf(k), "../assets")
    /\ ~Contains(RestOf(k), "{{renderer :drawio,")
    /\ ~Contains(RestOf(k), "- TODO ")
    /\ ~Contains(RestOf(k), "- DOING ")

\* Line k, once processed, holds text as its content, and its output line
\* is the target indent and then text, whole when the line is a nested list
\* node outside a code block, without its first two characters otherwise.
RewrittenTo(k, text) ==
    /\ lines[k].content = text
    /\ trace[k].outcome = "emit" =>
          StartsWith(trace[k].text,
                     Tabs(trace[k].target)
                         \o (IF ~trace[k].code /\ trace[k].depth > 0
                             THEN text ELSE SliceFrom(text, 2)))

\* C6 amended: for a rest without the trigger of an earlier rule, the
\* content of a processed task line is rewritten as claimed; the output line
\* carries it behind the target indent, without its bullet unless nested.
C6_TaskLineRewritten ==
    \A k \in Processed :
        /\ PlainTodo(k) => RewrittenTo(k, TodoText(k))
        /\ PlainDone(k) => RewrittenTo(k, DoneText(k))

\* A nested TODO line behind a tab and a DONE line at the root have both
\* been emitted.
C6_Witness ==
    /\ \E k \in Processed :
          /\ PlainTodo(k)
          /\ trace[k].outcome = "emit"
          /\ ~trace[k].code
          /\ trace[k].depth > 0
          /\ LeadingTabs(lines_raw[k]) > trace[k].target
    /\ \E k \in Processed :
          /\ PlainDone(k)
          /\ trace[k].outcome = "emit"
          /\ trace[k].depth <= 0

----------------------------------------------------------------------------
\* Pages with image lines: bare, bulleted, with a name that itself holds an
\* asset path, next to a fence, text and a list node.
AssetContents == {"![x](../assets/img.png)", "- ![x](../assets/img.png)",
                  "![x](../assets/a](../assets/b)", "- " \o FENCE, "  t",
                  "- A"}
InitAsset == InitWith(Pages(AssetContents, MaxTabs, MaxShortLen), {FALSE})
SpecAsset == InitAsset /\ [][Next]_vars

\* The content of raw line k is "![x](../assets/<name>)".
IsImage(k) ==
    LET c == ContentRaw(lines_raw[k])
    IN  /\ StartsWith(c, "![x](../assets/")
        /\ CharAt(c, Len(c) - 1) = ")"

ImageName(k) ==
    LET c == ContentRaw(lines_raw[k]) IN Slice(c, 15, Len(c) - 1)

\* C7: a line whose content is "![x](../assets/<name>)" triggers exactly
\* one materialize request for <name> with an empty subdir and is rewritten
\* in the output to "![x](assets/<name>)".
C7_ImageLineOutput ==
    \A k \in 1..Len(trace) :
        (IsImage(k) /\ trace[k].outcome = "emit") =>
            /\ trace[k].requests = << Request(ImageName(k), "") >>
            /\ StartsWith(trace[k].text,
                          Tabs(trace[k].target)
                              \o "![x](assets/" \o ImageName(k) \o ")")

\* C7 amended: for a name that does not hold "/assets/", the line, once it
\* is reached, makes exactly that one request; its content becomes
\* "![x](assets/<name>)"; and its output line, the line being Text, carries
\* that content without its first two characters.
C7_ImageLineRewritten ==
    \A k \in 1..Len(trace) :
        (IsImage(k) /\ ~Contains(ImageName(k), "/assets/")) =>
            /\ trace[k].outcome # "skipped" =>
                  trace[k].requests = << Request(ImageName(k), "") >>
            /\ k \in Processed =>
                  lines[k].content = "![x](assets/" \o ImageName(k) \o ")"
            /\ trace[k].outcome = "emit" =>
                  StartsWith(trace[k].text,
                             Tabs(trace[k].target)
                                 \o "x](assets/" \o ImageName(k) \o ")")

\* An image line has been emitted, after another line.
C7_Witness ==
    \E k \in 2..Len(trace) :
        /\ IsImage(k)
        /\ ~Contains(ImageName(k), "/assets/")
        /\ trace[k].outcome = "emit"
        /\ asset_requests # << >>

----------------------------------------------------------------------------
\* Pages with bare bullets, next to text, a fence, a metadata block and a
\* list node, converted with and without no_br.
EmptyContents == {"-", "- ", "  t", "- " \o FENCE, "  :LOGBOOK:", "- A"}
InitEmpty == InitWith(Pages(EmptyContents, MaxTabs, MaxShortLen), BOOLEAN)
SpecEmpty == InitEmpty /\ [][Next]_vars

\* Raw line k is an outline bullet with no content.
BareBullet(k) == ContentRaw(lines_raw[k]) \in {"-", "- "}

NextIsText(k) == k < Len(lines_raw) /\ RawType(k + 1).type = TEXT

\* C8: a bare bullet renders as "<br>" when no_br is false and as an empty
\* line when it is true, wherever it stands in the page.
C8_BareBulletRendering ==
    \A k \in 1..Len(trace) :
        (BareBullet(k) /\ trace[k].outcome = "emit") =>
            StartsWith(trace[k].text,
                       Tabs(trace[k].target)
                           \o (IF no_br THEN "\n" ELSE "<br>\n"))

\* C8 amended: outside a code block the output of a bare bullet is "<br>"
\* and a newline, or the newline alone under no_br, then a backslash if the
\* next line is Text, then the newline that ends every output line; inside
\* a code block it is an empty line whatever no_br is.
C8_BareBulletOutsideCode ==
    \A k \in 1..Len(trace) :
        (BareBullet(k) /\ trace[k].outcome = "emit") =>
            trace[k].text =
                Tabs(trace[k].target)
                    \o (IF trace[k].code THEN ""
                        ELSE (IF no_br THEN "\n" ELSE "<br>\n")
                                 \o (IF NextIsText(k) THEN "\\" ELSE ""))
                    \o "\n"

\* A bare bullet has been emitted outside a code block, after another line.
C8_Witness ==
    \E k \in 2..Len(trace) :
        /\ BareBullet(k)
        /\ trace[k].outcome = "emit"
        /\ ~trace[k].code

----------------------------------------------------------------------------
\* Pages with metadata blocks: the opening and the closing line, an opening
\* line that is also a "collapsed" line, one behind an asset link, a fence
\* and a list node.
LogbookContents == {"  :LOGBOOK:", "  :END:", "  collapsed:: true :LOGBOOK:",
                    "  [x](../assets/a) :LOGBOOK:", "- " \o FENCE, "- A"}
InitLogbook == InitWith(Pages(LogbookContents, 0, MaxBlockLen), {FALSE})
SpecLogbook == InitLogbook /\ [][Next]_vars

\* Raw line k is a Text line containing ":LOGBOOK:" and the second loop
\* processed it outside a code block.
OpensLogbook(k) ==
    /\ k \in Processed
    /\ RawType(k).type = TEXT
    /\ Contains(ContentRaw(lines_raw[k]), ":LOGBOOK:")
    /\ ~trace[k].code

HasEnd(k) == Contains(ContentRaw(lines_raw[k]), ":END:")

\* e is the first line from k on that contains ":END:".
ClosesAt(k, e) ==
    /\ e \in k..Len(lines_raw)
    /\ HasEnd(e)
    /\ \A m \in k..(e - 1) : ~HasEnd(m)

\* The block opened at k and closed at e is dropped, and nothing else is:
\* no line of k..e is output, the line after e is not skipped, and
\* lines_to_skip is 0 when the loop reaches that line.
BlockDropped(k, e) ==
    /\ \A m \in k..e : m <= Len(trace) => trace[m].outcome # "emit"
    /\ e + 1 <= Len(trace) => trace[e + 1].outcome # "skipped"
    /\ (pc = "rewrite" /\ i = e) => lines_to_skip = 0

\* C9: when a Text line containing ":LOGBOOK:" is processed outside a code
\* block, it and the lines up to and including the first one containing
\* ":END:" produce no output, the line after that one is not dropped, and
\* lines_to_skip is 0 again there and is never negative.
C9_LogbookBlockDropped ==
    /\ lines_to_skip >= 0
    /\ \A k \in 1..Len(trace) :
          OpensLogbook(k) =>
              /\ trace[k].outcome # "emit"
              /\ \A e \in k..Len(lines_raw) :
                    ClosesAt(k, e) => BlockDropped(k, e)

\* The opening line holds no trigger that lets an earlier rule than the
\* ":LOGBOOK:" rule take or rewrite the line.
PlainLogbook(k) ==
    LET c == ContentRaw(lines_raw[k])
    IN  /\ ~Contains(c, "collapsed:: true")
        /\ ~Contains(c, "../assets")
        /\ ~Contains(c, "{{renderer :drawio,")

\* C9 amended: the same, for an opening line that contains none of
\* "collapsed:: true", "../assets" and "{{renderer :drawio,".
C9_PlainLogbookBlockDropped ==
    /\ lines_to_skip >= 0
    /\ \A k \in 1..Len(trace) :
          (OpensLogbook(k) /\ PlainLogbook(k)) =>
              /\ trace[k].outcome # "emit"
              /\ \A e \in k..Len(lines_raw) :
                    ClosesAt(k, e) => BlockDropped(k, e)

\* A block of three lines was dropped and the line after it was output.
C9_Witness ==
    \E k \in 1..Len(trace) :
        /\ OpensLogbook(k)
        /\ PlainLogbook(k)
        /\ ClosesAt(k, k + 2)
        /\ Len(trace) = k + 3
        /\ trace[k + 3].outcome = "emit"
        /\ lines_to_skip = 0

----------------------------------------------------------------------------
\* Pages with a code block: the fences, a code line, and code lines that
\* look like an image link and like a task.
CodeContents == {"- " \o FENCE, "  " \o FENCE, "  code",
                 "  ![x](../assets/a.png)", "- TODO x", "- A"}
InitCode == InitWith(Pages(CodeContents, MaxTabs, MaxShortLen), {FALSE})
SpecCode == InitCode /\ [][Next]_vars

\* C10: while the code-block flag is true, the text emitted for a line is
\* the target indent, the line's original content without its first two
\* characters, and the newline: no rewrite rule changes code.
C10_CodeBlockVerbatim ==
    \A k \in 1..Len(trace) :
        (trace[k].outcome = "emit" /\ trace[k].code) =>
            trace[k].text =
                Tabs(trace[k].target)
                    \o SliceFrom(ContentRaw(lines_raw[k]), 2) \o "\n"

----------------------------------------------------------------------------
\* Pages that start with a list node and go on with list nodes, text, bare
\* bullets and fences, nested up to MaxIndent.
ShapeContents == {"- A", "  t", "-", "- " \o FENCE}
ShapePages == { p \in Pages(ShapeContents, MaxIndent, MaxLen) :
                  ContentRaw(p[1]) = "- A" }
InitShape == InitWith(ShapePages, {FALSE})
SpecShape == InitShape /\ [][Next]_vars

NewlineCount(t) ==
    Cardinality({ j \in 0..(Len(t) - 1) : CharAt(t, j) = "\n" })

EndsWithNewline(t) == Len(t) > 0 /\ CharAt(t, Len(t) - 1) = "\n"

\* C11: every output line ends with exactly one newline character, and its
\* indentation is exactly the target indent in tabs.
C11_OneNewlineExactIndent ==
    \A k \in 1..Len(trace) :
        trace[k].outcome = "emit" =>
            /\ EndsWithNewline(trace[k].text)
            /\ NewlineCount(trace[k].text) = 1
            /\ LeadingTabs(trace[k].text) = trace[k].target

\* Line k is rendered with a newline of its own before the final one: a
\* nested list node before a dedent, text before a line of another kind, a
\* bare bullet; always outside a code block.
BlankAfter(k) ==
    /\ ~trace[k].code
    /\ \/ /\ RawType(k).type = LIST
          /\ trace[k].depth > 0
          /\ k < Len(lines_raw)
          /\ LeadingTabs(lines_raw[k + 1]) < LeadingTabs(lines_raw[k])
       \/ /\ RawType(k).type = TEXT
          /\ k < Len(lines_raw)
          /\ RawType(k + 1).type # TEXT
       \/ RawType(k).type = EMPTY

\* C11 amended: every output line starts with exactly the target indent in
\* tabs and ends with a newline; it holds one more newline, and no further
\* one, exactly when it is a nested list node before a dedent, text before
\* a line of another kind or a bare bullet, outside a code block.
C11_LineShape ==
    \A k \in 1..Len(trace) :
        trace[k].outcome = "emit" =>
            /\ EndsWithNewline(trace[k].text)
            /\ NewlineCount(trace[k].text) = (IF BlankAfter(k) THEN 2 ELSE 1)
            /\ LeadingTabs(trace[k].text) = trace[k].target

\* A nested list node at target indent 1 was output before a dedent, with
\* two newlines.
C11_Witness ==
    \E k \in 1..Len(trace) :
        /\ trace[k].outcome = "emit"
        /\ RawType(k).type = LIST
        /\ trace[k].target > 0
        /\ BlankAfter(k)
        /\ NewlineCount(trace[k].text) = 2

----------------------------------------------------------------------------
\* Pages with the five task markers: each at the start of a line, one
\* behind other text, one in front of an earlier marker and one in front of
\* an asset link.
MarkerContents == {"- TODO x", "- DOING x", "- DONE x", "- LATER x",
                   "- NOW x", "- a - NOW b", "- NOW - DOING x",
                   "- LATER ![x](../assets/a.png)"}
InitMarker == InitWith(Pages(MarkerContents, MaxTabs, MaxShortLen), {FALSE})
SpecMarker == InitMarker /\ [][Next]_vars

\* The markers in the order of the chain, and the form each is rewritten to.
TaskMarkers == << "- TODO ", "- DOING ", "- DONE ", "- LATER ", "- NOW " >>

GlyphForm(n, rest) ==
    CASE n = 1 -> "- **&#x2610; TODO** " \o rest
      [] n = 2 -> "- **&#x231B; DOING** " \o rest
      [] n = 3 -> "- **&#x2611;** ~~" \o rest \o "~~"
      [] n = 4 -> "- **&#x23F2; LATER** " \o rest
      [] n = 5 -> "- **&#x23F0; NOW** " \o rest

HasGlyph(c) == StartsWith(c, "- **&#x")

HasMarker(c) == \E n \in 1..5 : Contains(c, TaskMarkers[n])

\* C12: every processed line whose content contains one of the task markers
\* is rewritten to the glyph form, whatever else the line contains.
C12_MarkerLineRewritten ==
    \A k \in Processed :
        HasMarker(ContentRaw(lines_raw[k])) => HasGlyph(lines[k].content)

\* The content starts with marker n and holds no trigger of a rule that
\* comes earlier in the chain.
LeadingMarker(c, n) ==
    /\ StartsWith(c, TaskMarkers[n])
    /\ ~Contains(c, "../assets")
    /\ ~Contains(c, "{{renderer :drawio,")
    /\ \A m \in 1..(n - 1) : ~Contains(c, TaskMarkers[m])

\* C12 amended: a processed line whose content starts with a task marker
\* and holds no trigger of an earlier rule of the chain is rewritten to the
\* glyph form of that marker followed by the remaining text; every other
\* line that contains a marker is not rewritten to a glyph form.
C12_LeadingMarkerRewritten ==
    \A k \in Processed :
        LET c == ContentRaw(lines_raw[k])
        IN  /\ \A n \in 1..5 :
                  LeadingMarker(c, n) =>
                      lines[k].content
                          = GlyphForm(n, SliceFrom(c, Len(TaskMarkers[n])))
            /\ (HasMarker(c) /\ ~\E n \in 1..5 : LeadingMarker(c, n))
                  => ~HasGlyph(lines[k].content)

\* A NOW line was rewritten and output after a line that holds a marker
\* and was left alone.
C12_Witness ==
    \E k \in 2..Len(trace) :
        /\ trace[k].outcome = "emit"
        /\ LeadingMarker(ContentRaw(lines_raw[k]), 5)
        /\ HasGlyph(lines[k].content)
        /\ HasMarker(ContentRaw(lines_raw[k - 1]))
        /\ k - 1 \in Processed
        /\ ~HasGlyph(lines[k - 1].content)

----------------------------------------------------------------------------
\* Outline pages that start with a list node and go on with list nodes,
\* headings, text and elided text.
RecalcContents == {"- A", "# T", "  t", "  collapsed:: true"}
RecalcPages == { p \in Pages(RecalcContents, MaxIndent, MaxLen) :
                   ContentRaw(p[1]) = "- A" }
InitRecalc == InitWith(RecalcPages, {FALSE})
SpecRecalc == InitRecalc /\ [][Next]_vars

\* This step of the second loop processes a line after the first, and
\* neither that line nor the input line before it is a Title.
DeltaStep ==
    /\ pc = "rewrite"
    /\ i > 0
    /\ i' = i + 1
    /\ lines_to_skip = 0
    /\ lines[i + 1].type # TITLE
    /\ lines[i].type # TITLE

\* The step of the reference recalculator for raw indents prev and cur.
ReferenceStep(prev, cur) ==
    /\ cur > prev =>
          /\ cur_list_depth' = cur_list_depth + 1
          /\ target_line_indent' =
                 IF cur_list_depth' <= 1 THEN last_target_line_indent
                 ELSE last_target_line_indent + 1
    /\ cur < prev =>
          /\ target_line_indent' =
                 Max(0, last_target_line_indent - (prev - cur))
          /\ cur_list_depth' = cur_list_depth - 1
    /\ cur = prev => target_line_indent' = last_target_line_indent
    /\ last_target_line_indent' =
           IF /\ trace'[Len(trace')].outcome = "emit"
              /\ lines[i + 1].hierarchy = PARENT
           THEN target_line_indent'
           ELSE last_target_line_indent

\* C13: for every processed line after the first where neither it nor the
\* preceding input line is a Title, the step of the code is the step of the
\* reference recalculator of section 4.3, and last_target_line_indent
\* becomes the new target exactly on an emitted NodeStart line.
C13_FollowsRecalculator ==
    [][DeltaStep => ReferenceStep(lines[i].indent, lines[i + 1].indent)]_vars

\* A nested continuation line was output at a deeper target than the
\* baseline, which it left alone, and then an elided line was processed.
C13_Witness ==
    \E k \in 2..(Len(trace) - 1) :
        /\ trace[k].outcome = "emit"
        /\ RawType(k).hierarchy = CHILD
        /\ trace[k].target > 0
        /\ trace[k + 1].outcome = "collapsed"
        /\ last_target_line_indent < trace[k].target

----------------------------------------------------------------------------
\* C14: processing the first line of a page sets target_line_indent to 0
\* and leaves cur_list_depth at 0, whatever the other lines of the page,
\* the last one included, are.
C14_FirstLineFrame ==
    (Len(trace) >= 1 /\ trace[1].outcome = "emit") =>
        /\ trace[1].target = 0
        /\ trace[1].depth = 0

----------------------------------------------------------------------------
\* Pages with every kind of line next to text: list nodes, text, headings,
\* fences, bare bullets and quotes.
MergeContents == {"- A", "  t", "# T", "- " \o FENCE, "-", "- > q"}
InitMerge == InitWith(Pages(MergeContents, 0, MaxBlockLen), {FALSE})
SpecMerge == InitMerge /\ [][Next]_vars

\* The output line ends with a backslash in front of its final newline.
EndsWithBackslash(t) ==
    /\ Len(t) >= 2
    /\ CharAt(t, Len(t) - 2) = "\\"
    /\ CharAt(t, Len(t) - 1) = "\n"

\* Line k is outside a code block and neither a fence marker nor a Title.
Mergeable(k) ==
    /\ ~trace[k].code
    /\ RawType(k).type \notin {CODE_BLOCK_MARKER, TITLE}

\* C15: an emitted line outside a code block that is neither a fence marker
\* nor a Title gets a trailing backslash whenever the next input line is
\* Text; a Title, a fence marker and a line inside a code block get none.
C15_ContinuationBackslash ==
    \A k \in 1..Len(trace) :
        trace[k].outcome = "emit" =>
            /\ (Mergeable(k) /\ NextIsText(k))
                  => EndsWithBackslash(trace[k].text)
            /\ ~Mergeable(k) => ~EndsWithBackslash(trace[k].text)

\* A list node outside a code block was output with a backslash and a line
\* under an open fence without one, each in front of a text line.
C15_Witness ==
    /\ \E k \in 1..Len(trace) :
          /\ trace[k].outcome = "emit"
          /\ Mergeable(k)
          /\ RawType(k).type = LIST
          /\ NextIsText(k)
          /\ EndsWithBackslash(trace[k].text)
    /\ \E k \in 1..Len(trace) :
          /\ trace[k].outcome = "emit"
          /\ trace[k].code
          /\ NextIsText(k)
          /\ ~EndsWithBackslash(trace[k].text)

----------------------------------------------------------------------------
\* Outline pages with headings and fences.
HeadingContents == {"- A", "# T", "- " \o FENCE}
InitHeading == InitWith(Pages(HeadingContents, MaxIndent, MaxLen), {FALSE})
SpecHeading == InitHeading /\ [][Next]_vars

\* cur_list_depth before line k was processed.
DepthBefore(k) == IF k = 1 THEN 0 ELSE trace[k - 1].depth

\* C16: after any Title line has been processed cur_list_depth is 0, also
\* while the code-block flag is true.
C16_TitleResetsDepth ==
    \A k \in Processed :
        RawType(k).type = TITLE => trace[k].depth = 0

\* C16 amended: a Title line processed while the code-block flag is false
\* leaves cur_list_depth at 0; one processed while the flag is true leaves
\* cur_list_depth as it was.
C16_TitleResetsDepthOutsideCode ==
    \A k \in Processed :
        RawType(k).type = TITLE =>
            trace[k].depth = (IF trace[k].code THEN DepthBefore(k) ELSE 0)

\* A Title line was processed outside a code block at a depth other than 0.
C16_Witness ==
    \E k \in Processed :
        /\ RawType(k).type = TITLE
        /\ ~trace[k].code
        /\ DepthBefore(k) # 0
        /\ trace[k].depth = 0

----------------------------------------------------------------------------
\* Pages with lines that hold a coarse trigger and miss its pattern, next
\* to lines that match and to lines with two triggers.
MissContents == {"- see ../assets", "- [x] ../assets/a.png",
                 "- {{renderer :drawio, d.png}}",
                 "- {{renderer :drawio,d.svg}}",
                 "- TODO x ../assets"}
NearMissContents ==
    MissContents \cup
        {"- {{renderer :drawio, d.svg}} ../assets",
         "- ![x](../assets/a.png) {{renderer :drawio, d.png}}",
         "- ![x](../assets/a.png)", "- A"}
InitNearMiss == InitWith(Pages(NearMissContents, 0, MaxShortLen), {FALSE})
SpecNearMiss == InitNearMiss /\ [][Next]_vars

\* The rule of the chain that takes raw line k is the asset rule or the
\* drawio rule, and the content does not match the pattern of that rule.
NearMiss(k) ==
    LET c == ContentRaw(lines_raw[k])
    IN  /\ RawType(k).type # CODE_BLOCK_MARKER
        /\ IF Contains(c, "../assets") THEN ~AssetMatches(c)
           ELSE Contains(c, "{{renderer :drawio,") /\ ~DrawioMatches(c)

\* Line k was not skipped, made no request, did not end the run, and its
\* content is as it was read.
Quiet(k) ==
    /\ trace[k].requests = << >>
    /\ trace[k].outcome # "failed"
    /\ lines[k].content = ContentRaw(lines_raw[k])

----------------------------------------------------------------------------
\* Pages with every combination of first and third character the
\* classifier tells apart, with elided lines and with a line it rejects.
KindContents == {"- A", "  t", "a  x", "abc", "# T", "- # T", "  # t",
                 "- " \o BQ \o "x", "  " \o BQ \o "x",
                 "- " \o FENCE, "  " \o FENCE, "- > q", "  > q", "-", " ",
                 "  collapsed:: true", "  :LOGBOOK:", "a #"}
InitKind == InitWith(Pages(KindContents, 0, MaxShortLen), {FALSE})
SpecKind == InitKind /\ [][Next]_vars

\* C18: no classified line has kind Code; Text always comes with the role
\* Continuation, Title and List with the role NodeStart; hence every elided
\* line is a Continuation line and every line output inside a code block
\* has another kind than Code.
C18_KindsAndRoles ==
    /\ \A k \in 1..Len(lines) :
          /\ lines[k].type # CODE
          /\ lines[k].type = TEXT => lines[k].hierarchy = CHILD
          /\ lines[k].type \in {TITLE, LIST} => lines[k].hierarchy = PARENT
    /\ \A k \in 1..Len(trace) :
          /\ trace[k].outcome \in {"collapsed", "logbook"}
                => lines[k].hierarchy = CHILD
          /\ (trace[k].outcome = "emit" /\ trace[k].code)
                => lines[k].type # CODE

\* A line was elided as a Continuation line, behind a list node that is a
\* NodeStart line.
C18_Witness ==
    \E k \in 2..Len(trace) :
        /\ trace[k].outcome = "collapsed"
        /\ lines[k].type = TEXT
        /\ lines[k].hierarchy = CHILD
        /\ lines[k - 1].type = LIST
        /\ lines[k - 1].hierarchy = PARENT

----------------------------------------------------------------------------
\* Raw line k is a List line that was processed outside a code block.
ListOutsideCode(k) ==
    /\ k \in Processed
    /\ RawType(k).type = LIST
    /\ ~trace[k].code

\* Raw line k stands one raw indent deeper than the line before it.
OneDeeper(k) ==
    /\ k > 1
    /\ LeadingTabs(lines_raw[k]) = LeadingTabs(lines_raw[k - 1]) + 1

\* C19: when a List line with raw indent 0 is processed outside a code
\* block, cur_list_depth is at most 0 and the line is output without its
\* bullet; and two List lines at the same raw indent that each follow a
\* line one raw indent shallower get the same target indent.
C19_DepthTracksNesting ==
    /\ \A k \in 1..Len(trace) :
          (ListOutsideCode(k) /\ LeadingTabs(lines_raw[k]) = 0) =>
              /\ trace[k].depth <= 0
              /\ StartsWith(trace[k].text,
                            Tabs(trace[k].target)
                                \o SliceFrom(lines[k].content, 2))
    /\ \A j, k \in 1..Len(trace) :
          (/\ ListOutsideCode(j) /\ OneDeeper(j)
           /\ ListOutsideCode(k) /\ OneDeeper(k)
           /\ LeadingTabs(lines_raw[j]) = LeadingTabs(lines_raw[k]))
              => trace[j].target = trace[k].target

----------------------------------------------------------------------------
\* C20: whenever an emitted line gets the continuation backslash because
\* the next input line is Text, that next line is itself emitted: it is not
\* elided as a "collapsed:: true" line or as part of a ":LOGBOOK:" block.
C20_BackslashBeforeEmittedLine ==
    \A k \in 1..(Len(trace) - 1) :
        (/\ trace[k].outcome = "emit"
         /\ Mergeable(k)
         /\ NextIsText(k)
         /\ EndsWithBackslash(trace[k].text))
            => trace[k + 1].outcome = "emit"

====

